---- MODULE Spec2Model ----
(***************************************************************************)
(* A model of DataReader (src/datareader.py): one reader instance, its     *)
(* configuration, and the two read operations read_csv and read_excel,     *)
(* each taken one loop iteration at a time.  A source is a stream: csvfile *)
(* and worksheet hold the rows the loop has consumed so far, each          *)
(* iteration finds the next row of the source, and the read returns when   *)
(* the source ends, so at the return they hold the whole source.           *)
(* held_results is a history variable: whether the instance held anything  *)
(* from an earlier read when the latest read was called.  handle is the    *)
(* source handle of the latest read (the file object of read_csv, the      *)
(* workbook of read_excel): "none" before any was acquired, then "open"    *)
(* or "closed".                                                            *)
(*                                                                         *)
(* Values.  A Python value is a record [t, s, n, f]:                       *)
(*   t  the name of its type ("str", "float", "int", "NoneType"),          *)
(*   s  the characters of a str (a sequence of one-character strings),     *)
(*   n  the whole part of a number,                                        *)
(*   f  the fractional digits of a float, trailing zeros removed.          *)
(* A Python list and a Python tuple are both sequences here: tuple(row)    *)
(* keeps the elements and their order, which is all the model reads.       *)
(***************************************************************************)
EXTENDS Integers, Sequences, FiniteSets, TLC

VARIABLES header, data, err_data, _data_types, _data_type_error,
          lineskip, delimiter, pc, i, csvfile, worksheet, exc, held_results,
          handle

vars == <<header, data, err_data, _data_types, _data_type_error,
          lineskip, delimiter, pc, i, csvfile, worksheet, exc, held_results,
          handle>>

session == <<header, data, err_data, _data_types>>

----------------------------------------------------------------------------
(* Bounds of the model. *)

\* The longest source (physical rows of a file or sheet) that is read.
MaxRows == 3

\* The largest lineskip the caller configures.
MaxLineskip == 1

----------------------------------------------------------------------------
(* Python values. *)

NoneValue == [t |-> "NoneType", s |-> <<>>, n |-> 0, f |-> <<>>]

StrValue(chars) == [t |-> "str", s |-> chars, n |-> 0, f |-> <<>>]

FloatValue(whole, frac) == [t |-> "float", s |-> <<>>, n |-> whole, f |-> frac]

IntValue(whole) == [t |-> "int", s |-> <<>>, n |-> whole, f |-> <<>>]

\* type(value).__name__
TypeName(value) == value.t

Digits == {"0", "1", "5"}

DigitVal(c) == CASE c = "0" -> 0 [] c = "1" -> 1 [] c = "5" -> 5 [] OTHER -> 0

\* The position of the first "." of chars, or 0.
RECURSIVE DotAt(_, _)
DotAt(chars, k) ==
    IF k > Len(chars) THEN 0
    ELSE IF chars[k] = "." THEN k
    ELSE DotAt(chars, k + 1)

\* The number a sequence of decimal digits writes.
RECURSIVE Decimal(_)
Decimal(ds) ==
    IF ds = <<>> THEN 0
    ELSE 10 * Decimal(SubSeq(ds, 1, Len(ds) - 1)) + DigitVal(ds[Len(ds)])

\* Fractional digits without their trailing zeros.
RECURSIVE StripZeros(_)
StripZeros(ds) ==
    IF ds = <<>> THEN <<>>
    ELSE IF ds[Len(ds)] = "0" THEN StripZeros(SubSeq(ds, 1, Len(ds) - 1))
    ELSE ds

WholePart(chars) ==
    IF DotAt(chars, 1) = 0 THEN chars ELSE SubSeq(chars, 1, DotAt(chars, 1) - 1)

FracPart(chars) ==
    IF DotAt(chars, 1) = 0 THEN <<>>
    ELSE SubSeq(chars, DotAt(chars, 1) + 1, Len(chars))

\* Whether float(chars) succeeds, for text over the model's alphabet: digits
\* with at most one ".", and at least one digit ("1", "1.5", "1.", ".5").
FloatParses(chars) ==
    /\ \A k \in 1..Len(WholePart(chars)) : WholePart(chars)[k] \in Digits
    /\ \A k \in 1..Len(FracPart(chars)) : FracPart(chars)[k] \in Digits
    /\ Len(WholePart(chars)) + Len(FracPart(chars)) > 0

\* float(chars), where it succeeds.
ParseFloat(chars) ==
    FloatValue(Decimal(WholePart(chars)), StripZeros(FracPart(chars)))

\* float.is_integer()
IsInteger(value) == value.f = <<>>

\* DataReader._type_convert: a str becomes the float it parses as, and is
\* returned at once; a float without a fractional part becomes an int.
_type_convert(value) ==
    IF TypeName(value) = "str"
    THEN IF FloatParses(value.s) THEN ParseFloat(value.s) ELSE value
    ELSE IF TypeName(value) = "float" /\ IsInteger(value) THEN IntValue(value.n)
    ELSE value

----------------------------------------------------------------------------
(* Sources. *)

\* csv.reader on one line of text: the fields between the delimiters, each a
\* str; a blank line is a record without fields.  The model's text holds no
\* quote or escape characters.
RECURSIVE SplitFrom(_, _, _)
SplitFrom(chars, d, field) ==
    IF chars = <<>> THEN <<StrValue(field)>>
    ELSE IF Head(chars) = d
         THEN <<StrValue(field)>> \o SplitFrom(Tail(chars), d, <<>>)
         ELSE SplitFrom(Tail(chars), d, Append(field, Head(chars)))

CsvRecord(line, d) == IF line = <<>> THEN <<>> ELSE SplitFrom(line, d, <<>>)

\* The lines a text file is made of.
CsvLines ==
    { <<>>,
      <<"x">>,
      <<"x", ",", "1">>,
      <<"x", ",", "1", ".", "5">>,
      <<"x", ",", "1", ".", "0">>,
      <<"x", ",", "x">>,
      <<"x", ",">>,
      <<"x", ";", "1">> }

Delimiters == {",", ";"}

\* The cells of a sheet: an absent cell, a text, a whole number.
ExcelCells == {NoneValue, StrValue(<<"x">>), IntValue(1)}

\* iter_rows yields rows of one width, the sheet's.
ExcelWidths == {1, 2}

\* The rows a sheet of width w is made of.
ExcelRows(w) == [1..w -> ExcelCells]

\* The exceptions each open may raise and the read turns into DataReaderReadError.
CsvOpenErrors == {"FileNotFoundError", "PermissionError"}

ExcelOpenErrors == {"FileNotFoundError", "PermissionError", "InvalidFileException"}

\* Exceptions the loop of each read may raise after the source was opened.
CsvIterationErrors == {"UnicodeDecodeError", "csv.Error"}

ExcelIterationErrors == {"AttributeError", "MemoryError"}

----------------------------------------------------------------------------
(* The reader. *)

NoException == [type |-> "none", cause |-> "none"]

\* DataReaderReadError("Error while importing the file.", e)
DataReaderReadError(cause) == [type |-> "DataReaderReadError", cause |-> cause]

Init ==
    /\ header = <<>>
    /\ data = <<>>
    /\ err_data = <<>>
    /\ _data_types = <<>>
    /\ _data_type_error = FALSE
    /\ lineskip = 0
    /\ delimiter = ","
    /\ pc = "idle"
    /\ i = 0
    /\ csvfile = <<>>
    /\ worksheet = <<>>
    /\ exc = NoException
    /\ held_results = FALSE
    /\ handle = "none"

\* No read is running: the caller may configure the reader or start a read.
AtRest ==
    pc \in {"idle", "csv_returned", "excel_returned", "raised", "csv_failed",
            "excel_failed"}

\* The caller sets config.delimiter between two reads; the read that
\* returned is then no longer the caller's latest operation.
SetDelimiter(d) ==
    /\ AtRest
    /\ d # delimiter
    /\ delimiter' = d
    /\ pc' = "idle"
    /\ UNCHANGED <<header, data, err_data, _data_types, _data_type_error,
                   lineskip, i, csvfile, worksheet, exc, held_results,
                   handle>>

\* The caller sets config.lineskip between two reads.
SetLineskip(n) ==
    /\ AtRest
    /\ n # lineskip
    /\ lineskip' = n
    /\ pc' = "idle"
    /\ UNCHANGED <<header, data, err_data, _data_types, _data_type_error,
                   delimiter, i, csvfile, worksheet, exc, held_results,
                   handle>>

\* Whether the instance holds anything of a read.
HoldsResults ==
    header # <<>> \/ data # <<>> \/ err_data # <<>> \/ _data_types # <<>>

\* A _reset that forgets the schema: _data_types survives into the next read.
ResetKeepsSchema ==
    /\ header' = <<>>
    /\ data' = <<>>
    /\ err_data' = <<>>
    /\ _data_types' = _data_types

\* DataReader._reset
_reset ==
    /\ header' = <<>>
    /\ data' = <<>>
    /\ err_data' = <<>>
    /\ _data_types' = <<>>

Min(a, b) == IF a < b THEN a ELSE b

\* The session as one value, for the operators that compute a loop iteration.
Session(h, d, e, ty) == [header |-> h, data |-> d, err_data |-> e, types |-> ty]

EmptySession == Session(<<>>, <<>>, <<>>, <<>>)

\* read_csv, the schema of a row: the type of each coerced field.
CsvTypes(row) == [k \in 1..Len(row) |-> TypeName(_type_convert(row[k]))]

\* read_csv, the type check of the zip of a row and the schema.
CsvTypeError(row, types) ==
    \E k \in 1..Min(Len(row), Len(types)) :
        /\ _type_convert(row[k]) # StrValue(<<>>)
        /\ TypeName(_type_convert(row[k])) # types[k]

\* read_csv, the data_set built over the zip of a row and the schema.
CsvDataSet(row, types) ==
    [k \in 1..Min(Len(row), Len(types)) |->
        IF _type_convert(row[k]) = StrValue(<<>>)
        THEN NoneValue
        ELSE _type_convert(_type_convert(row[k]))]

\* A read_csv loop that takes the header from the row at index lineskip,
\* usable or not, and treats every later row as data.
CsvIterationHeaderAtSkip(s, row, idx, skip, type_error) ==
    IF idx < skip THEN s
    ELSE IF idx = skip THEN [s EXCEPT !.header = row]
    ELSE LET types == IF s.types = <<>> /\ ~type_error
                      THEN CsvTypes(row) ELSE s.types
             t == [s EXCEPT !.types = types]
         IN  IF Len(row) # Len(s.header)
             THEN [t EXCEPT !.err_data = Append(@, <<row, "Wrong length.">>)]
             ELSE IF type_error
             THEN [t EXCEPT !.data = Append(@, row)]
             ELSE IF CsvTypeError(row, types)
             THEN [t EXCEPT !.err_data = Append(@, <<row, "Wrong data type.">>)]
             ELSE [t EXCEPT !.data = Append(@, CsvDataSet(row, types))]

\* read_csv, the body of the loop for the row at index idx.
CsvIteration(s, row, idx, skip, type_error) ==
    IF idx < skip THEN s
    ELSE IF s.header = <<>> THEN [s EXCEPT !.header = row]
    ELSE LET types == IF s.types = <<>> /\ ~type_error
                      THEN CsvTypes(row) ELSE s.types
             t == [s EXCEPT !.types = types]
         IN  IF Len(row) # Len(s.header)
             THEN [t EXCEPT !.err_data = Append(@, <<row, "Wrong length.">>)]
             ELSE IF type_error
             THEN [t EXCEPT !.data = Append(@, row)]
             ELSE IF CsvTypeError(row, types)
             THEN [t EXCEPT !.err_data = Append(@, <<row, "Wrong data type.">>)]
             ELSE [t EXCEPT !.data = Append(@, CsvDataSet(row, types))]

\* read_csv up to the open: the session is reset and the file is opened.
ReadCsvOpen ==
    /\ AtRest
    /\ held_results' = HoldsResults
    /\ _reset
    /\ csvfile' = <<>>
    /\ worksheet' = <<>>
    /\ i' = 0
    /\ pc' = "read_csv"
    /\ exc' = NoException
    /\ handle' = "open"
    /\ UNCHANGED <<_data_type_error, lineskip, delimiter>>

\* read_csv when open raises: the session is reset, DataReaderReadError leaves.
ReadCsvOpenError(cause) ==
    /\ AtRest
    /\ held_results' = HoldsResults
    /\ _reset
    /\ csvfile' = <<>>
    /\ worksheet' = <<>>
    /\ i' = 0
    /\ pc' = "raised"
    /\ exc' = DataReaderReadError(cause)
    /\ handle' = "none"
    /\ UNCHANGED <<_data_type_error, lineskip, delimiter>>

\* read_csv, one iteration of the loop over the reader, which yields the
\* record of the next line of the file.
ReadCsvRow(line) ==
    /\ pc = "read_csv"
    /\ i < MaxRows
    /\ csvfile' = Append(csvfile, line)
    /\ LET s == CsvIteration(Session(header, data, err_data, _data_types),
                             CsvRecord(line, delimiter), i, lineskip,
                             _data_type_error)
       IN  /\ header' = s.header
           /\ data' = s.data
           /\ err_data' = s.err_data
           /\ _data_types' = s.types
    /\ i' = i + 1
    /\ UNCHANGED <<_data_type_error, lineskip, delimiter, pc, worksheet, exc,
                   held_results, handle>>

\* read_csv when the reader raises on the next row of the file (a line that
\* does not decode, a record csv rejects): the with statement closes the
\* file, and the exception, which the except clause does not name, leaves
\* read_csv.
ReadCsvIterationError(cause) ==
    /\ pc = "read_csv"
    /\ i < MaxRows
    /\ pc' = "csv_failed"
    /\ exc' = [type |-> cause, cause |-> "none"]
    /\ handle' = "closed"
    /\ UNCHANGED <<header, data, err_data, _data_types, _data_type_error,
                   lineskip, delimiter, i, csvfile, worksheet, held_results>>

\* read_csv returns when the reader is exhausted: the with statement closes
\* the file.
ReadCsvReturn ==
    /\ pc = "read_csv"
    /\ pc' = "csv_returned"
    /\ handle' = "closed"
    /\ UNCHANGED <<header, data, err_data, _data_types, _data_type_error,
                   lineskip, delimiter, i, csvfile, worksheet, exc,
                   held_results>>

\* read_excel, the header of a row: its cells up to the first absent one.
RECURSIVE ExcelHeader(_)
ExcelHeader(row) ==
    IF row = <<>> \/ Head(row) = NoneValue THEN <<>>
    ELSE <<Head(row)>> \o ExcelHeader(Tail(row))

\* read_excel, the schema of a row: the type of each cell, absent ones included.
ExcelTypes(row) == [k \in 1..Len(row) |-> TypeName(row[k])]

IsPresent(cell) == cell # NoneValue

\* read_excel, data_values: the cells of a row that are not None.
DataValues(row) == SelectSeq(row, IsPresent)

\* read_excel, the type check of the zip of data_values and the schema.
ExcelTypeError(values, types) ==
    \E k \in 1..Min(Len(values), Len(types)) :
        /\ values[k] # NoneValue
        /\ TypeName(values[k]) # types[k]

\* read_excel, the data_set built over the zip of data_values and the schema.
ExcelDataSet(values, types) ==
    [k \in 1..Min(Len(values), Len(types)) |-> values[k]]

\* A read_excel loop without the continue after a 'Wrong length.' record:
\* the row goes on to the type check and is recorded a second time.
ExcelIterationNoContinue(s, row, idx, skip) ==
    IF idx < skip THEN s
    ELSE IF s.header = <<>> THEN [s EXCEPT !.header = ExcelHeader(row)]
    ELSE LET types == IF s.types = <<>> THEN ExcelTypes(row) ELSE s.types
             t == [s EXCEPT !.types = types]
             u == IF Len(DataValues(row)) # Len(s.header)
                  THEN [t EXCEPT !.err_data =
                             Append(@, <<row, "Wrong length.">>)]
                  ELSE t
         IN  IF ExcelTypeError(DataValues(row), types)
             THEN [u EXCEPT !.err_data =
                        Append(@, <<DataValues(row), "Wrong data type.">>)]
             ELSE [u EXCEPT !.data =
                        Append(@, ExcelDataSet(DataValues(row), types))]

\* read_excel, the body of the loop for the row at index idx.
ExcelIteration(s, row, idx, skip) ==
    IF idx < skip THEN s
    ELSE IF s.header = <<>> THEN [s EXCEPT !.header = ExcelHeader(row)]
    ELSE LET types == IF s.types = <<>> THEN ExcelTypes(row) ELSE s.types
             t == [s EXCEPT !.types = types]
         IN  IF Len(DataValues(row)) # Len(s.header)
             THEN [t EXCEPT !.err_data = Append(@, <<row, "Wrong length.">>)]
             ELSE IF ExcelTypeError(DataValues(row), types)
             THEN [t EXCEPT !.err_data =
                        Append(@, <<DataValues(row), "Wrong data type.">>)]
             ELSE [t EXCEPT !.data =
                        Append(@, ExcelDataSet(DataValues(row), types))]

\* read_excel up to load_workbook: the session is reset, the workbook loaded.
ReadExcelOpen ==
    /\ AtRest
    /\ held_results' = HoldsResults
    /\ _reset
    /\ worksheet' = <<>>
    /\ csvfile' = <<>>
    /\ i' = 0
    /\ pc' = "read_excel"
    /\ exc' = NoException
    /\ handle' = "open"
    /\ UNCHANGED <<_data_type_error, lineskip, delimiter>>

\* A read_excel that loads the workbook before it resets: when load_workbook
\* raises, the session is left as it was.
ReadExcelOpenErrorBeforeReset(cause) ==
    /\ AtRest
    /\ held_results' = HoldsResults
    /\ worksheet' = <<>>
    /\ csvfile' = <<>>
    /\ i' = 0
    /\ pc' = "raised"
    /\ exc' = DataReaderReadError(cause)
    /\ handle' = "none"
    /\ UNCHANGED <<header, data, err_data, _data_types, _data_type_error,
                   lineskip, delimiter>>

\* read_excel when load_workbook raises: reset, DataReaderReadError leaves.
ReadExcelOpenError(cause) ==
    /\ AtRest
    /\ held_results' = HoldsResults
    /\ _reset
    /\ worksheet' = <<>>
    /\ csvfile' = <<>>
    /\ i' = 0
    /\ pc' = "raised"
    /\ exc' = DataReaderReadError(cause)
    /\ handle' = "none"
    /\ UNCHANGED <<_data_type_error, lineskip, delimiter>>

\* read_excel, one iteration of the loop over the rows, which yields the next
\* row of the sheet: as wide as the rows before it.
ReadExcelRow(row) ==
    /\ pc = "read_excel"
    /\ i < MaxRows
    /\ worksheet # <<>> => Len(row) = Len(worksheet[1])
    /\ worksheet' = Append(worksheet, row)
    /\ LET s == ExcelIteration(Session(header, data, err_data, _data_types),
                               row, i, lineskip)
       IN  /\ header' = s.header
           /\ data' = s.data
           /\ err_data' = s.err_data
           /\ _data_types' = s.types
    /\ i' = i + 1
    /\ UNCHANGED <<_data_type_error, lineskip, delimiter, pc, csvfile, exc,
                   held_results, handle>>

\* read_excel when the loop raises on the next row of the sheet (the active
\* sheet has no iter_rows, memory runs out): nothing catches the exception,
\* and workbook.close() after the loop is not reached.
ReadExcelIterationError(cause) ==
    /\ pc = "read_excel"
    /\ i < MaxRows
    /\ pc' = "excel_failed"
    /\ exc' = [type |-> cause, cause |-> "none"]
    /\ UNCHANGED <<header, data, err_data, _data_types, _data_type_error,
                   lineskip, delimiter, i, csvfile, worksheet, held_results,
                   handle>>

\* read_excel returns when the rows are exhausted, after workbook.close().
ReadExcelReturn ==
    /\ pc = "read_excel"
    /\ pc' = "excel_returned"
    /\ handle' = "closed"
    /\ UNCHANGED <<header, data, err_data, _data_types, _data_type_error,
                   lineskip, delimiter, i, csvfile, worksheet, exc,
                   held_results>>

Next ==
    \/ \E d \in Delimiters : SetDelimiter(d)
    \/ \E n \in 0..MaxLineskip : SetLineskip(n)
    \/ ReadCsvOpen
    \/ \E cause \in CsvOpenErrors : ReadCsvOpenError(cause)
    \/ \E line \in CsvLines : ReadCsvRow(line)
    \/ \E cause \in CsvIterationErrors : ReadCsvIterationError(cause)
    \/ ReadCsvReturn
    \/ ReadExcelOpen
    \/ \E cause \in ExcelOpenErrors : ReadExcelOpenError(cause)
    \/ \E w \in ExcelWidths : \E row \in ExcelRows(w) : ReadExcelRow(row)
    \/ \E cause \in ExcelIterationErrors : ReadExcelIterationError(cause)
    \/ ReadExcelReturn

Spec == Init /\ [][Next]_vars

----------------------------------------------------------------------------
(* What the properties below read off a state or a step. *)

InCsvRead == pc \in {"read_csv", "csv_returned"}

InExcelRead == pc \in {"read_excel", "excel_returned"}

\* A step that is one iteration of the loop of read_csv, of read_excel.
CsvRowStep == pc = "read_csv" /\ i' = i + 1

ExcelRowStep == pc = "read_excel" /\ i' = i + 1

\* The record, the physical row, that the iteration of this step processes.
CsvRowRead == CsvRecord(csvfile'[i'], delimiter)

ExcelRowRead == worksheet'[i']

\* This step appends exactly one error record with this reason, and accepts
\* nothing.
AppendsError(reason) ==
    /\ Len(err_data') = Len(err_data) + 1
    /\ SubSeq(err_data', 1, Len(err_data)) = err_data
    /\ err_data'[Len(err_data')][2] = reason
    /\ data' = data

\* This step appends exactly this accepted row, and records no error.
AppendsAccepted(row) ==
    /\ data' = Append(data, row)
    /\ err_data' = err_data

\* The rows the lines of a text file are read as.
CsvRecords == [k \in 1..Len(csvfile) |-> CsvRecord(csvfile[k], delimiter)]

----------------------------------------------------------------------------
(* C1.  Once the schema is captured, the header and the schema are equally *)
(* long and every accepted row has exactly one value per header column, in *)
(* every state during or after a read, whatever the first data row's       *)
(* length.                                                                 *)
C1_LengthsAgree ==
    _data_types # <<>> =>
        /\ Len(header) = Len(_data_types)
        /\ \A k \in 1..Len(data) : Len(data[k]) = Len(header)

(* C2.  A row processed after the header was captured whose field count    *)
(* (for a sheet: the number of cells of the physical row) differs from the *)
(* length of the header adds exactly one 'Wrong length.' error record and  *)
(* is not accepted.                                                        *)
C2_WrongLengthRejected ==
    [][/\ (CsvRowStep /\ header # <<>> /\ Len(CsvRowRead) # Len(header))
            => AppendsError("Wrong length.")
       /\ (ExcelRowStep /\ header # <<>> /\ Len(ExcelRowRead) # Len(header))
            => AppendsError("Wrong length.")]_vars

\* The text lines of the scenario of C3: the header Name,Age, the first data
\* row Alice,30 and the later row Bob,25.5.
NameAge == <<"x", ",", "x">>

Alice30 == <<"x", ",", "1">>

Bob25_5 == <<"x", ",", "1", ".", "5">>

(* C3.  read_csv of the header Name,Age and the first data row Alice,30    *)
(* records the schema [str, int], int being a tag of its own beside float, *)
(* and a following row Bob,25.5 mismatches the int tag: it is recorded as  *)
(* a 'Wrong data type.' error and not accepted.                            *)
C3_IntegerTagDistinct ==
    ( /\ InCsvRead
      /\ lineskip = 0
      /\ delimiter = ","
      /\ Len(csvfile) >= 2
      /\ csvfile[1] = NameAge
      /\ csvfile[2] = Alice30 ) =>
        /\ _data_types = <<"str", "int">>
        /\ (Len(csvfile) >= 3 /\ csvfile[3] = Bob25_5) =>
              /\ Len(err_data) = 1
              /\ err_data[1][2] = "Wrong data type."
              /\ Len(data) = 1

\* What C4 says a field of an accepted row becomes: an empty field null,
\* integral numeric text an int, fractional numeric text a float, other
\* text itself.
Converted(field) ==
    IF field = StrValue(<<>>) THEN NoneValue
    ELSE IF FloatParses(field.s)
         THEN IF IsInteger(ParseFloat(field.s))
              THEN IntValue(ParseFloat(field.s).n)
              ELSE ParseFloat(field.s)
         ELSE field

\* Every non-empty field of the row has a coerced type that matches the
\* schema tag at its position.
FieldsMatch(row, types) ==
    \A k \in 1..Len(row) :
        row[k] # StrValue(<<>>) =>
            /\ k <= Len(types)
            /\ TypeName(_type_convert(row[k])) = types[k]

(* C4.  In read_csv a row of the header's length whose non-empty fields    *)
(* all match the schema tags at their positions is accepted, field by      *)
(* field: an empty field as null whatever its column's tag, integral text  *)
(* as an int, fractional text as a float, other text as it is; and no      *)
(* error is recorded for it.                                               *)
C4_MatchingRowAccepted ==
    [][( /\ CsvRowStep
         /\ header # <<>>
         /\ Len(CsvRowRead) = Len(header)
         /\ FieldsMatch(CsvRowRead, _data_types') )
        => AppendsAccepted([k \in 1..Len(CsvRowRead) |->
                               Converted(CsvRowRead[k])])]_vars

\* read_csv of these lines on a fresh DataReader.
RECURSIVE FreshReadCsv(_, _, _)
FreshReadCsv(lines, skip, d) ==
    IF lines = <<>> THEN EmptySession
    ELSE CsvIteration(FreshReadCsv(SubSeq(lines, 1, Len(lines) - 1), skip, d),
                      CsvRecord(lines[Len(lines)], d), Len(lines) - 1, skip,
                      FALSE)

\* read_excel of these rows on a fresh DataReader.
RECURSIVE FreshReadExcel(_, _)
FreshReadExcel(rows, skip) ==
    IF rows = <<>> THEN EmptySession
    ELSE ExcelIteration(FreshReadExcel(SubSeq(rows, 1, Len(rows) - 1), skip),
                        rows[Len(rows)], Len(rows) - 1, skip)

(* C5.  A read replaces the session: during and after read_csv and         *)
(* read_excel, the header, the schema, the accepted rows and the error     *)
(* records are those a fresh reader gets from the source read so far       *)
(* under the current delimiter and lineskip, whatever the instance held    *)
(* before; in particular the header is a row of this source.               *)
C5_ReadReplacesSession ==
    /\ InCsvRead =>
          /\ Session(header, data, err_data, _data_types)
                = FreshReadCsv(csvfile, lineskip, delimiter)
          /\ header # <<>> => \E k \in 1..Len(csvfile) : header = CsvRecords[k]
    /\ InExcelRead =>
          /\ Session(header, data, err_data, _data_types)
                = FreshReadExcel(worksheet, lineskip)
          /\ header # <<>> =>
                \E k \in 1..Len(worksheet) : header = ExcelHeader(worksheet[k])

\* A read_csv has returned accepted rows under a changed delimiter, on an
\* instance that held the results of an earlier read.
C5_Witness ==
    /\ pc = "csv_returned"
    /\ held_results
    /\ delimiter = ";"
    /\ data # <<>>

FirstUsable(rows, skip, Usable(_)) ==
    IF \E k \in (skip + 1)..Len(rows) : Usable(rows[k])
    THEN CHOOSE k \in (skip + 1)..Len(rows) :
            /\ Usable(rows[k])
            /\ \A j \in (skip + 1)..(k - 1) : ~Usable(rows[j])
    ELSE 0

\* A csv record with at least one field; a sheet row whose first cell is
\* present.
CsvUsable(row) == row # <<>>

ExcelUsable(row) == ExcelHeader(row) # <<>>

CsvHeaderRow == FirstUsable(CsvRecords, lineskip, CsvUsable)

ExcelHeaderRow == FirstUsable(worksheet, lineskip, ExcelUsable)

AllWrongLength == \A k \in 1..Len(err_data) : err_data[k][2] = "Wrong length."

(* C7, as claimed.  The header is taken from the first row at index        *)
(* lineskip even when that row has no usable cells: the header is then     *)
(* empty, no later row becomes the header, and every following row is a    *)
(* 'Wrong length.' error (stated for following rows that have usable       *)
(* cells themselves).                                                      *)
C7_HeaderFromFirstRow ==
    /\ (InCsvRead /\ Len(csvfile) > lineskip
           /\ ~CsvUsable(CsvRecords[lineskip + 1])
           /\ \A k \in (lineskip + 2)..Len(csvfile) : CsvRecords[k] # <<>>) =>
          /\ header = <<>>
          /\ data = <<>>
          /\ Len(err_data) = Len(csvfile) - lineskip - 1
          /\ AllWrongLength
    /\ (InExcelRead /\ Len(worksheet) > lineskip
           /\ ~ExcelUsable(worksheet[lineskip + 1])
           /\ \A k \in (lineskip + 2)..Len(worksheet) :
                 ExcelUsable(worksheet[k])) =>
          /\ header = <<>>
          /\ data = <<>>
          /\ Len(err_data) = Len(worksheet) - lineskip - 1
          /\ AllWrongLength

(* C7, amended.  The header is taken from the first row at index >=        *)
(* lineskip that has usable cells; the rows without usable cells before it *)
(* leave the session empty, and every row after it is processed as a data  *)
(* row (one record each), so no later row becomes the header.              *)
C7_HeaderFromFirstUsableRow ==
    /\ InCsvRead =>
          IF CsvHeaderRow = 0
          THEN ~HoldsResults
          ELSE /\ header = CsvRecords[CsvHeaderRow]
               /\ Len(data) + Len(err_data) = Len(csvfile) - CsvHeaderRow
    /\ InExcelRead =>
          IF ExcelHeaderRow = 0
          THEN ~HoldsResults
          ELSE /\ header = ExcelHeader(worksheet[ExcelHeaderRow])
               /\ Len(data) + Len(err_data) = Len(worksheet) - ExcelHeaderRow

\* A text file whose first row is an empty record, followed by a row that
\* became the header and a data row that was accepted.
C7_Witness ==
    /\ pc = "csv_returned"
    /\ lineskip = 0
    /\ Len(csvfile) = 3
    /\ csvfile[1] = <<>>
    /\ header # <<>>
    /\ Len(data) = 1

(* C8.  Every error record holds a row of the source as it was read: all   *)
(* its fields or cells, absent ones included, in their positions and       *)
(* uncoerced, with one of the two reasons.                                 *)
C8_ErrorRowsVerbatim ==
    /\ \A k \in 1..Len(err_data) :
          err_data[k][2] \in {"Wrong length.", "Wrong data type."}
    /\ InCsvRead =>
          \A k \in 1..Len(err_data) :
              \E j \in 1..Len(csvfile) : err_data[k][1] = CsvRecords[j]
    /\ InExcelRead =>
          \A k \in 1..Len(err_data) :
              \E j \in 1..Len(worksheet) : err_data[k][1] = worksheet[j]

\* This step appends one entry to exactly one of the two lists and leaves
\* the entries that were there as they were.
AppendsOneEntry ==
    \/ /\ Len(data') = Len(data) + 1
       /\ SubSeq(data', 1, Len(data)) = data
       /\ err_data' = err_data
    \/ /\ Len(err_data') = Len(err_data) + 1
       /\ SubSeq(err_data', 1, Len(err_data)) = err_data
       /\ data' = data

\* C9, the steps of a read.
C9_Step ==
    /\ (CsvRowStep \/ ExcelRowStep) =>
          /\ pc' = pc
          /\ exc' = NoException
          /\ IF header # <<>>
             THEN AppendsOneEntry
             ELSE data' = data /\ err_data' = err_data
    /\ (pc \in {"read_csv", "read_excel"} /\ ~(CsvRowStep \/ ExcelRowStep)) =>
          data' = data /\ err_data' = err_data

\* C9, the state a read returns in.
C9_Returned ==
    /\ (pc = "csv_returned" /\ CsvHeaderRow # 0) =>
          Len(data) + Len(err_data) = Len(csvfile) - CsvHeaderRow
    /\ (pc = "excel_returned" /\ ExcelHeaderRow # 0) =>
          Len(data) + Len(err_data) = Len(worksheet) - ExcelHeaderRow
    /\ (pc = "csv_returned" /\ CsvHeaderRow = 0) =>
          Len(data) + Len(err_data) = 0
    /\ (pc = "excel_returned" /\ ExcelHeaderRow = 0) =>
          Len(data) + Len(err_data) = 0

(* C9.  A row never stops a read: every iteration leaves the read running  *)
(* without an exception; an iteration on a row after the header row adds   *)
(* one entry to exactly one of the two lists, at its end, and changes no   *)
(* earlier entry; no other step of a read touches the lists; and when the  *)
(* read has returned, accepted rows and error records together are as many *)
(* as the source rows after the header row.                                *)
C9_EveryRowRecordedOnce ==
    /\ [][C9_Step]_vars
    /\ []C9_Returned

\* A read_excel has returned with a header row and two rows after it, one
\* accepted and one recorded as an error.
C9_Witness ==
    /\ pc = "excel_returned"
    /\ Len(worksheet) = 3
    /\ Len(data) = 1
    /\ Len(err_data) = 1

\* The row has an absent cell inside the header's columns, a present one too,
\* and no cell outside them, and each of its present cells has the type of its
\* own column's tag.
AbsentCellRowMatches(row, hdr, types) ==
    /\ \E k \in 1..Len(hdr) : row[k] = NoneValue
    /\ \E k \in 1..Len(hdr) : row[k] # NoneValue
    /\ \A k \in (Len(hdr) + 1)..Len(row) : row[k] = NoneValue
    /\ \A k \in 1..Len(hdr) :
          row[k] # NoneValue => TypeName(row[k]) = types[k]

(* C10.  In read_excel a data row with an absent cell inside the header's  *)
(* columns, whose present cells each match the schema tag of their own     *)
(* column, is accepted with one value per header column and None at the    *)
(* absent position.                                                        *)
C10_AbsentCellAccepted ==
    [][( /\ ExcelRowStep
         /\ header # <<>>
         /\ AbsentCellRowMatches(ExcelRowRead, header, _data_types') )
        => AppendsAccepted(SubSeq(ExcelRowRead, 1, Len(header)))]_vars

\* A row after the header row has been processed already in this read.
DataRowProcessed == Len(data) + Len(err_data) >= 1

(* C11.  Schema inference runs once in a read, on the row right after the  *)
(* header row: that iteration records the types of its row as the schema,  *)
(* and no iteration on a later row changes the recorded schema, also when  *)
(* the row right after the header is an empty record.                      *)
C11_SchemaInferredOnce ==
    [][/\ (CsvRowStep /\ header # <<>> /\ ~DataRowProcessed) =>
            _data_types' = CsvTypes(CsvRowRead)
       /\ (ExcelRowStep /\ header # <<>> /\ ~DataRowProcessed) =>
            _data_types' = ExcelTypes(ExcelRowRead)
       /\ ((CsvRowStep \/ ExcelRowStep) /\ header # <<>> /\ DataRowProcessed) =>
            _data_types' = _data_types]_vars

\* Schema inference has run in this read and did not establish a type for
\* every column of the header.
SchemaIncomplete ==
    /\ header # <<>>
    /\ DataRowProcessed
    /\ Len(_data_types) < Len(header)

(* C12.  In read_csv, once schema inference has not established a type for *)
(* every header column, the read is in degenerate mode: a later row as     *)
(* long as the header is appended to the accepted rows as it is, without   *)
(* type validation, and a row of another length is still recorded as a     *)
(* 'Wrong length.' error.                                                  *)
C12_DegenerateMode ==
    [][(CsvRowStep /\ SchemaIncomplete) =>
          IF Len(CsvRowRead) = Len(header)
          THEN AppendsAccepted(CsvRowRead)
          ELSE AppendsError("Wrong length.")]_vars

(* C13.  The source handle a read opened is closed on every way out of    *)
(* the read: whenever no read is running, the file of read_csv and the     *)
(* workbook of read_excel are not open, also after an exception raised     *)
(* while the rows were iterated.                                           *)
C13_HandleClosedOnExit == AtRest => handle # "open"

====
